---- MODULE Spec2Model ----
(***************************************************************************)
(* A model of kart's diff core (kart/diff_util.py): get_all_ds_paths,      *)
(* get_repo_diff and get_dataset_diff, over the diff structures            *)
(* (kart/diff_structs.py), the key filters (kart/key_filters.py) and the   *)
(* dataset collaborators (diff, diff_to_working_copy) they are built on.   *)
(*                                                                         *)
(* Values are integers: a feature or meta value is 1..n and Absent is the  *)
(* missing side of a delta.  A dataset path is a string, held as the       *)
(* sequence of its character codes so that Python's ordering of strings    *)
(* (lexicographic) can be computed.                                        *)
(***************************************************************************)
EXTENDS Integers, Sequences, FiniteSets, TLC

VARIABLES
    base_rs,            \* the base RepoStructure: [commit, tree]
    target_rs,          \* the target RepoStructure: [commit, tree]
    working_copy,       \* the working copy: the content of each dataset of target_rs
    pc,                 \* "idle", "loop", "returned" or "raised"
    include_wc_diff,    \* the call's include_wc_diff
    workdir_diff_cache, \* the call's workdir_diff_cache: None or a cache
    repo_key_filter,    \* the call's repo_key_filter
    all_ds_paths,       \* get_repo_diff: the sorted paths
    idx,                \* get_repo_diff: position of the loop in all_ds_paths
    repo_diff,          \* get_repo_diff: the RepoDiff being built
    cache_calls,        \* number of calls of working_copy.workdir_diff_cache()
    ds_path,            \* a direct get_dataset_diff call: its ds_path
    ds_result,          \* a direct get_dataset_diff call: its outcome
    ds_calls,           \* history: the get_dataset_diff calls made, in order
    failure,            \* the collaborator failure that ended the call, or None
    alg,                \* a diff under prune or concatenation, or None
    help,               \* kart/help.py: a renderer, the environment, its call; or None
    fetch               \* kart/promisor_utils.py: a git-fetch context; or None

vars == <<base_rs, target_rs, working_copy, pc, include_wc_diff, workdir_diff_cache,
          repo_key_filter, all_ds_paths, idx, repo_diff, cache_calls, ds_path,
          ds_result, ds_calls, failure, alg, help, fetch>>

----------------------------------------------------------------------------
(* Bounds of the model. *)

\* Number of feature primary keys a dataset may hold.
NumKeys == 2
\* Number of distinct feature values.
NumVals == 2
\* Number of distinct values of a dataset's one meta item (its schema).
NumSchemas == 2

----------------------------------------------------------------------------
(* The data model. *)

\* The absent side of a Delta (Python's None as Delta.old or Delta.new).
Absent == 0

\* Python's None where a dataset, a diff or a cache is expected.
None == [none |-> TRUE]

Keys == 1 .. NumKeys
Vals == 1 .. NumVals
\* A dataset's meta items: one item, the schema.
MetaKeys == {1}
MetaVals == 1 .. NumSchemas

\* The kinds of change a DatasetDiff holds, each a DeltaDiff.
Kinds == {"meta", "feature"}

KindKeys(kind) == IF kind = "meta" THEN MetaKeys ELSE Keys

\* The content of a dataset at a snapshot or in the working copy: every meta
\* item has a value, a feature has a value or is Absent.
Datasets == [meta : [MetaKeys -> MetaVals], feature : [Keys -> Vals \cup {Absent}]]

\* Dataset paths: "parcels", "roads", "park", as character codes.
PathParcels == <<112, 97, 114, 99, 101, 108, 115>>
PathRoads == <<114, 111, 97, 100, 115>>
PathPark == <<112, 97, 114, 107>>

\* The value of item k of a dataset, Absent for an absent dataset.
ItemValue(ds, kind, k) == IF ds = None THEN Absent ELSE ds[kind][k]

\* Delta(old, new).
Delta(old_value, new_value) == [old |-> old_value, new |-> new_value]

\* An empty DeltaDiff, DatasetDiff or RepoDiff: a dict with no keys.
EmptyDiff == <<>>

IsEmpty(d) == DOMAIN d = {}

----------------------------------------------------------------------------
(* Key filters (kart/key_filters.py). *)

\* DatasetKeyFilter.MATCH_ALL
DatasetKeyFilter_MATCH_ALL == [match_all |-> TRUE, keys |-> {}]
\* An explicit DatasetKeyFilter: a set of primary keys.
DatasetKeyFilter(pks) == [match_all |-> FALSE, keys |-> pks]
\* RepoKeyFilter.MATCH_ALL
RepoKeyFilter_MATCH_ALL == [match_all |-> TRUE, map |-> <<>>]
\* An explicit RepoKeyFilter: a mapping from dataset path to DatasetKeyFilter.
RepoKeyFilter(m) == [match_all |-> FALSE, map |-> m]

\* filter_keys returning the filter's explicit keys, candidates or not.
filter_keys_explicit_set(key_filter, candidate_keys) ==
    IF key_filter.match_all THEN candidate_keys
    ELSE DOMAIN key_filter.map

\* KeyFilter.filter_keys on a RepoKeyFilter.
filter_keys(key_filter, candidate_keys) ==
    IF key_filter.match_all THEN candidate_keys
    ELSE candidate_keys \cap DOMAIN key_filter.map

\* Indexing that looks the key up in the mapping even when the filter is
\* match-all.
RepoKeyFilter_getitem_not_absorbing(key_filter, key) ==
    IF key \in DOMAIN key_filter.map THEN key_filter.map[key]
    ELSE DatasetKeyFilter({})

\* Indexing that takes a key missing from the mapping as not constrained.
RepoKeyFilter_getitem_missing_matches_all(key_filter, key) ==
    IF key_filter.match_all THEN DatasetKeyFilter_MATCH_ALL
    ELSE IF key \in DOMAIN key_filter.map THEN key_filter.map[key]
    ELSE DatasetKeyFilter_MATCH_ALL

\* repo_key_filter[ds_path]
RepoKeyFilter_getitem(key_filter, key) ==
    IF key_filter.match_all THEN DatasetKeyFilter_MATCH_ALL
    ELSE IF key \in DOMAIN key_filter.map THEN key_filter.map[key]
    ELSE DatasetKeyFilter({})

\* Whether ds_filter lets item k of the given kind into a diff: an explicit
\* filter names feature primary keys only, so it lets no meta item in.
KeyMatches(ds_filter, kind, k) ==
    \/ ds_filter.match_all
    \/ kind = "feature" /\ k \in ds_filter.keys

----------------------------------------------------------------------------
(* The diff structures (kart/diff_structs.py). *)

\* DeltaDiff.__invert__: swap old and new in every delta.
DeltaDiff_reversed(delta_diff) ==
    [k \in DOMAIN delta_diff |-> Delta(delta_diff[k].new, delta_diff[k].old)]

\* DatasetDiff.__invert__: every DeltaDiff reversed.
DatasetDiff_reversed(self) == [kind \in DOMAIN self |-> DeltaDiff_reversed(self[kind])]

\* Concatenation of two DeltaDiffs that keeps a key of both whose old and
\* new are equal.
DeltaDiff_concatenated_keeping_cancelled(first, second) ==
    [k \in DOMAIN first \cup DOMAIN second |->
        Delta(IF k \in DOMAIN first THEN first[k].old ELSE second[k].old,
              IF k \in DOMAIN second THEN second[k].new ELSE first[k].new)]

\* Concatenation of two DeltaDiffs over adjacent transitions.
DeltaDiff_concatenated(first, second) ==
    LET both == DOMAIN first \cap DOMAIN second
        merged(k) ==
            Delta(IF k \in DOMAIN first THEN first[k].old ELSE second[k].old,
                  IF k \in DOMAIN second THEN second[k].new ELSE first[k].new)
        kept == {k \in DOMAIN first \cup DOMAIN second :
                    ~(k \in both /\ merged(k).old = merged(k).new)}
    IN  [k \in kept |-> merged(k)]

\* Concatenation of two containers of the same shape: matching children are
\* concatenated, unmatched ones carried over.
DatasetDiff_add(first, second) ==
    [kind \in DOMAIN first \cup DOMAIN second |->
        IF kind \in DOMAIN first /\ kind \in DOMAIN second
        THEN DeltaDiff_concatenated(first[kind], second[kind])
        ELSE IF kind \in DOMAIN first THEN first[kind] ELSE second[kind]]

\* DatasetDiff.concatenated(first, second): a side that is None is skipped.
DatasetDiff_concatenated(first, second) ==
    IF first = None THEN (IF second = None THEN EmptyDiff ELSE second)
    ELSE IF second = None THEN first
    ELSE DatasetDiff_add(first, second)

\* DeltaDiff.prune: its children are deltas, not containers; nothing to remove.
DeltaDiff_prune(delta_diff) == delta_diff

\* DatasetDiff.prune(recurse): prune each child if recurse, then drop the
\* children that are empty.
DatasetDiff_prune(self, recurse) ==
    LET child(kind) == IF recurse THEN DeltaDiff_prune(self[kind]) ELSE self[kind]
    IN  [kind \in {c \in DOMAIN self : ~IsEmpty(child(c))} |-> child(kind)]

\* RepoDiff.prune with the emptiness of a child tested before the child is pruned.
RepoDiff_prune_test_first(self, recurse) ==
    LET child(path) ==
            IF recurse THEN DatasetDiff_prune(self[path], TRUE) ELSE self[path]
    IN  [path \in {c \in DOMAIN self : ~IsEmpty(self[c])} |-> child(path)]

\* RepoDiff.prune(recurse)
RepoDiff_prune(self, recurse) ==
    LET child(path) ==
            IF recurse THEN DatasetDiff_prune(self[path], TRUE) ELSE self[path]
    IN  [path \in {c \in DOMAIN self : ~IsEmpty(child(c))} |-> child(path)]

----------------------------------------------------------------------------
(* The dataset collaborators. *)

\* The DeltaDiff of one kind between two datasets, either of which may be
\* absent, restricted by ds_filter.
diff_kind(from_ds, to_ds, kind, ds_filter, reverse) ==
    LET changed == {k \in KindKeys(kind) :
                       /\ KeyMatches(ds_filter, kind, k)
                       /\ ItemValue(from_ds, kind, k) # ItemValue(to_ds, kind, k)}
        forward == [k \in changed |->
                       Delta(ItemValue(from_ds, kind, k), ItemValue(to_ds, kind, k))]
    IN  IF reverse THEN DeltaDiff_reversed(forward) ELSE forward

\* from_ds.diff(to_ds, ds_filter=ds_filter, reverse=reverse)
diff(from_ds, to_ds, ds_filter, reverse) ==
    [kind \in Kinds |-> diff_kind(from_ds, to_ds, kind, ds_filter, reverse)]

\* target_ds.diff_to_working_copy(workdir_diff_cache, ds_filter=ds_filter):
\* wc_ds is the dataset's content in the working copy.
diff_to_working_copy(target_ds, wc_ds, ds_filter) ==
    [kind \in Kinds |-> diff_kind(target_ds, wc_ds, kind, ds_filter, FALSE)]

\* datasets.get(ds_path): the dataset at ds_path, or None.
Get(datasets, path) ==
    IF path \in DOMAIN datasets.tree THEN datasets.tree[path] ELSE None

----------------------------------------------------------------------------
(* kart/diff_util.py *)

\* Python's ordering of two strings: lexicographic on the character codes.
RECURSIVE StrLess(_, _)
StrLess(a, b) ==
    IF a = <<>> THEN b # <<>>
    ELSE IF b = <<>> THEN FALSE
    ELSE IF Head(a) # Head(b) THEN Head(a) < Head(b)
    ELSE StrLess(Tail(a), Tail(b))

\* sorted(list(all_ds_paths)): the paths of the set in ascending order.
RECURSIVE sorted(_)
sorted(paths) ==
    IF paths = {} THEN <<>>
    ELSE LET least == CHOOSE p \in paths : \A q \in paths \ {p} : StrLess(p, q)
         IN  <<least>> \o sorted(paths \ {least})

\* get_all_ds_paths returning list(all_ds_paths), in an order that is not sorted.
get_all_ds_paths_unsorted(base, target, key_filter) ==
    LET all_paths == DOMAIN base.tree \cup DOMAIN target.tree
        filtered == IF ~key_filter.match_all
                    THEN filter_keys(key_filter, all_paths)
                    ELSE all_paths
        ascending == sorted(filtered)
    IN  [i \in 1 .. Len(ascending) |-> ascending[Len(ascending) + 1 - i]]

\* get_all_ds_paths that does not apply repo_key_filter.
get_all_ds_paths_unfiltered(base, target, key_filter) ==
    sorted(DOMAIN base.tree \cup DOMAIN target.tree)

\* get_all_ds_paths that takes the paths a filter names as they are, in
\* the snapshots or not.
get_all_ds_paths_named(base, target, key_filter) ==
    IF key_filter.match_all THEN sorted(DOMAIN base.tree \cup DOMAIN target.tree)
    ELSE sorted(DOMAIN key_filter.map)

get_all_ds_paths(base, target, key_filter) ==
    LET base_ds_paths == DOMAIN base.tree
        target_ds_paths == DOMAIN target.tree
        all_paths == base_ds_paths \cup target_ds_paths
        filtered == IF ~key_filter.match_all
                    THEN filter_keys(key_filter, all_paths)
                    ELSE all_paths
    IN  sorted(filtered)

\* The end of get_dataset_diff with the second diff replacing the first
\* where there is one, instead of being concatenated to it.
concatenate_and_prune_overwritten(base_target_diff, target_wc_diff) ==
    DatasetDiff_prune(IF target_wc_diff # None THEN target_wc_diff
                      ELSE DatasetDiff_concatenated(base_target_diff, None), TRUE)

\* The end of get_dataset_diff without ds_diff.prune().
concatenate_and_prune_unpruned(base_target_diff, target_wc_diff) ==
    DatasetDiff_concatenated(base_target_diff, target_wc_diff)

\* The end of get_dataset_diff with the two diffs concatenated in the wrong order.
concatenate_and_prune_swapped(base_target_diff, target_wc_diff) ==
    DatasetDiff_prune(DatasetDiff_concatenated(target_wc_diff, base_target_diff), TRUE)

\* The end of get_dataset_diff giving an empty diff when either diff is None.
concatenate_and_prune_none_is_empty(base_target_diff, target_wc_diff) ==
    IF base_target_diff = None \/ target_wc_diff = None THEN EmptyDiff
    ELSE DatasetDiff_prune(DatasetDiff_concatenated(base_target_diff, target_wc_diff), TRUE)

\* The end of get_dataset_diff: concatenate the two diffs and prune.
concatenate_and_prune(base_target_diff, target_wc_diff) ==
    DatasetDiff_prune(DatasetDiff_concatenated(base_target_diff, target_wc_diff), TRUE)

\* The direction of the diff with reverse left False when base_ds is None.
diff_direction_unreversed(base_ds, target_ds) ==
    IF base_ds # None THEN <<base_ds, target_ds, FALSE>>
    ELSE <<target_ds, base_ds, FALSE>>

\* The direction of the base<>target diff: <<from_ds, to_ds, reverse>>.
diff_direction(base_ds, target_ds) ==
    IF base_ds # None THEN <<base_ds, target_ds, FALSE>>
    ELSE <<target_ds, base_ds, TRUE>>

\* get_dataset_diff with ds_filter left out of the diff_to_working_copy call.
get_dataset_diff_wc_unfiltered(path, base_datasets, target_datasets, wc_tables, wc_diff, cache, key_filter) ==
    LET same == (base_datasets = target_datasets)
        base_ds == Get(base_datasets, path)
        target_ds == IF same THEN base_ds ELSE Get(target_datasets, path)
        dir == diff_direction(base_ds, target_ds)
        \* from_ds.diff(...) with from_ds None
        raised_diff == ~same /\ dir[1] = None
        base_target_diff ==
            IF same THEN None ELSE diff(dir[1], dir[2], key_filter, dir[3])
        new_cache == wc_diff /\ cache = None
        \* target_ds.repo with target_ds None
        raised_cache == new_cache /\ target_ds = None
        cache_used == IF new_cache THEN [cache |-> "created"] ELSE cache
        wc_called == wc_diff /\ target_ds # None
        target_wc_diff ==
            IF wc_called
            THEN diff_to_working_copy(target_ds, wc_tables[path],
                                      DatasetKeyFilter_MATCH_ALL)
            ELSE None
    IN  IF raised_diff
        THEN [raised |-> TRUE, ds_diff |-> None, cache_created |-> FALSE,
              wc_cache |-> None, diff_called |-> FALSE]
        ELSE IF raised_cache
        THEN [raised |-> TRUE, ds_diff |-> None, cache_created |-> FALSE,
              wc_cache |-> None, diff_called |-> ~same]
        ELSE [raised |-> FALSE,
              ds_diff |-> concatenate_and_prune(base_target_diff, target_wc_diff),
              cache_created |-> new_cache,
              wc_cache |-> IF wc_called THEN cache_used ELSE None,
              diff_called |-> ~same]

\* get_dataset_diff(ds_path, base_datasets, target_datasets, include_wc_diff=...,
\* workdir_diff_cache=..., ds_filter=...), with wc_tables the content of the
\* working copy.  The result says whether the call raised (an attribute of
\* None was used), the DatasetDiff returned, whether workdir_diff_cache() was
\* called, the cache handed to diff_to_working_copy (None: not called) and
\* whether from_ds.diff was called.
get_dataset_diff(path, base_datasets, target_datasets, wc_tables, wc_diff, cache, key_filter) ==
    LET same == (base_datasets = target_datasets)
        base_ds == Get(base_datasets, path)
        target_ds == IF same THEN base_ds ELSE Get(target_datasets, path)
        dir == diff_direction(base_ds, target_ds)
        \* from_ds.diff(...) with from_ds None
        raised_diff == ~same /\ dir[1] = None
        base_target_diff ==
            IF same THEN None ELSE diff(dir[1], dir[2], key_filter, dir[3])
        new_cache == wc_diff /\ cache = None
        \* target_ds.repo with target_ds None
        raised_cache == new_cache /\ target_ds = None
        cache_used == IF new_cache THEN [cache |-> "created"] ELSE cache
        wc_called == wc_diff /\ target_ds # None
        target_wc_diff ==
            IF wc_called
            THEN diff_to_working_copy(target_ds, wc_tables[path], key_filter)
            ELSE None
    IN  IF raised_diff
        THEN [raised |-> TRUE, ds_diff |-> None, cache_created |-> FALSE,
              wc_cache |-> None, diff_called |-> FALSE]
        ELSE IF raised_cache
        THEN [raised |-> TRUE, ds_diff |-> None, cache_created |-> FALSE,
              wc_cache |-> None, diff_called |-> ~same]
        ELSE [raised |-> FALSE,
              ds_diff |-> concatenate_and_prune(base_target_diff, target_wc_diff),
              cache_created |-> new_cache,
              wc_cache |-> IF wc_called THEN cache_used ELSE None,
              diff_called |-> ~same]

\* The collaborator calls that get_dataset_diff makes, by name: a call is made
\* if the lines before it neither fail nor use an attribute of None.
collaborator_calls(path, base_datasets, target_datasets, wc_diff, cache) ==
    LET same == (base_datasets = target_datasets)
        base_ds == Get(base_datasets, path)
        target_ds == IF same THEN base_ds ELSE Get(target_datasets, path)
        from_ds == diff_direction(base_ds, target_ds)[1]
    IN  {"get"}
        \cup (IF ~same /\ from_ds # None THEN {"diff"} ELSE {})
        \cup (IF wc_diff /\ cache = None /\ target_ds # None
              THEN {"workdir_diff_cache"} ELSE {})
        \cup (IF wc_diff /\ target_ds # None THEN {"diff_to_working_copy"} ELSE {})

\* The record kept of a get_dataset_diff call: the ds_path and ds_filter it
\* was given, the cache it handed to diff_to_working_copy (None: no such call)
\* and whether it called from_ds.diff.
ds_call(path, key_filter, result) ==
    [ds_path |-> path, ds_filter |-> key_filter, wc_cache |-> result.wc_cache,
     diff_called |-> result.diff_called]

----------------------------------------------------------------------------
(* The inputs. *)

\* The trees over some of the given paths, each dataset one of contents.
Trees(paths, contents) == UNION {[present -> contents] : present \in SUBSET paths}

DatasetKeyFilters ==
    {DatasetKeyFilter_MATCH_ALL} \cup {DatasetKeyFilter(pks) : pks \in SUBSET Keys}

\* The RepoKeyFilters over the given paths, each nested filter one of nested.
RepoKeyFilters(paths, nested) ==
    {RepoKeyFilter_MATCH_ALL} \cup {RepoKeyFilter(m) : m \in Trees(paths, nested)}

\* The collaborator calls of the diff core, by name.
CollaboratorCalls ==
    {"datasets", "get", "diff", "diff_to_working_copy", "workdir_diff_cache"}

\* A workdir_diff_cache argument: none, or a cache the caller made.
CacheArgs == {None, [cache |-> "supplied"]}

\* A repository: two snapshots and a working copy that tracks the target one.
\* Two snapshots of one commit are one source (base_datasets == target_datasets).
InitRepository(paths, contents) ==
    /\ base_rs \in [commit : {"c1"}, tree : Trees(paths, contents)]
    /\ target_rs \in [commit : {"c1", "c2"}, tree : Trees(paths, contents)]
    /\ target_rs.commit = base_rs.commit => target_rs = base_rs
    /\ working_copy \in [DOMAIN target_rs.tree -> contents]

InitCall ==
    /\ pc = "idle"
    /\ include_wc_diff = FALSE
    /\ workdir_diff_cache = None
    /\ repo_key_filter = RepoKeyFilter_MATCH_ALL
    /\ all_ds_paths = <<>>
    /\ idx = 1
    /\ repo_diff = EmptyDiff
    /\ cache_calls = 0
    /\ ds_path = <<>>
    /\ ds_result = None
    /\ ds_calls = <<>>
    /\ failure = None

----------------------------------------------------------------------------
(* get_repo_diff on a repository of several datasets. *)

RepoPaths == {PathRoads, PathParcels}

\* The datasets of the repository-level runs: one schema, the first feature
\* with any value or absent, every other feature with the first value.
RepoContents ==
    {ds \in Datasets : /\ \A m \in MetaKeys : ds.meta[m] = 1
                       /\ \A k \in Keys \ {1} : ds.feature[k] = 1}

RepoNestedFilters == {DatasetKeyFilter_MATCH_ALL, DatasetKeyFilter({1})}

Init == InitRepository(RepoPaths, RepoContents) /\ InitCall /\ alg = None /\ help = None /\ fetch = None

\* get_repo_diff up to its loop without lines 59-60: the cache is left for
\* each get_dataset_diff call to acquire.
get_repo_diff_call_no_acquire(wc_diff, cache, key_filter) ==
    /\ pc = "idle"
    /\ include_wc_diff' = wc_diff
    /\ repo_key_filter' = key_filter
    /\ all_ds_paths' = get_all_ds_paths(base_rs, target_rs, key_filter)
    /\ workdir_diff_cache' = cache
    /\ repo_diff' = EmptyDiff
    /\ idx' = 1
    /\ ds_calls' = <<>>
    /\ pc' = "loop"
    /\ UNCHANGED <<base_rs, target_rs, working_copy, cache_calls, ds_path, ds_result,
                   failure, alg, help, fetch>>

\* get_repo_diff ended before its loop by the failure of a collaborator call:
\* datasets() in get_all_ds_paths, or workdir_diff_cache() when it is called.
get_repo_diff_call_fails(wc_diff, cache, key_filter, call) ==
    /\ pc = "idle"
    /\ call \in {"datasets"}
                \cup (IF wc_diff /\ cache = None THEN {"workdir_diff_cache"} ELSE {})
    /\ include_wc_diff' = wc_diff
    /\ repo_key_filter' = key_filter
    /\ workdir_diff_cache' = cache
    /\ all_ds_paths' = IF call = "datasets" THEN all_ds_paths
                       ELSE get_all_ds_paths(base_rs, target_rs, key_filter)
    /\ cache_calls' = IF call = "workdir_diff_cache" THEN cache_calls + 1
                      ELSE cache_calls
    /\ failure' = [call |-> call, ds_path |-> <<>>]
    /\ pc' = "raised"
    /\ UNCHANGED <<base_rs, target_rs, working_copy, idx, repo_diff, ds_path, ds_result,
                   ds_calls, alg, help, fetch>>

\* get_repo_diff up to its loop: the paths, the cache and an empty RepoDiff.
get_repo_diff_call(wc_diff, cache, key_filter) ==
    /\ pc = "idle"
    /\ include_wc_diff' = wc_diff
    /\ repo_key_filter' = key_filter
    /\ all_ds_paths' = get_all_ds_paths(base_rs, target_rs, key_filter)
    /\ LET acquire == wc_diff /\ cache = None
       IN  /\ workdir_diff_cache' = IF acquire THEN [cache |-> "created"] ELSE cache
           /\ cache_calls' = IF acquire THEN cache_calls + 1 ELSE cache_calls
    /\ repo_diff' = EmptyDiff
    /\ idx' = 1
    /\ ds_calls' = <<>>
    /\ pc' = "loop"
    /\ UNCHANGED <<base_rs, target_rs, working_copy, ds_path, ds_result, failure, alg, help, fetch>>

\* One turn of get_repo_diff's loop: repo_diff[ds_path] = get_dataset_diff(...).
get_repo_diff_loop ==
    /\ pc = "loop"
    /\ idx <= Len(all_ds_paths)
    /\ LET path == all_ds_paths[idx]
           ds_filter == RepoKeyFilter_getitem(repo_key_filter, path)
           result == get_dataset_diff(path, base_rs, target_rs, working_copy,
                                      include_wc_diff, workdir_diff_cache, ds_filter)
       IN  /\ ds_calls' = Append(ds_calls, ds_call(path, ds_filter, result))
           /\ IF result.raised
              THEN /\ pc' = "raised"
                   /\ UNCHANGED <<repo_diff, idx, cache_calls>>
              ELSE /\ repo_diff' = [p \in DOMAIN repo_diff \cup {path} |->
                                       IF p = path THEN result.ds_diff ELSE repo_diff[p]]
                   /\ idx' = idx + 1
                   /\ cache_calls' = IF result.cache_created
                                     THEN cache_calls + 1 ELSE cache_calls
                   /\ pc' = "loop"
    /\ UNCHANGED <<base_rs, target_rs, working_copy, include_wc_diff,
                   workdir_diff_cache, repo_key_filter, all_ds_paths, ds_path,
                   ds_result, failure, alg, help, fetch>>

\* The record kept of a get_dataset_diff call that a collaborator's failure ended.
ds_call_failed(path, key_filter, call) ==
    [ds_path |-> path, ds_filter |-> key_filter,
     wc_cache |-> IF call = "diff_to_working_copy" THEN workdir_diff_cache ELSE None,
     diff_called |-> base_rs # target_rs /\ call # "get"]

\* A turn of the loop in which the failure of a collaborator call is caught
\* and the dataset skipped.
get_repo_diff_loop_fails_skipped(call) ==
    /\ pc = "loop"
    /\ idx <= Len(all_ds_paths)
    /\ LET path == all_ds_paths[idx]
           ds_filter == RepoKeyFilter_getitem(repo_key_filter, path)
       IN  /\ call \in {"datasets"}
                        \cup collaborator_calls(path, base_rs, target_rs,
                                                include_wc_diff, workdir_diff_cache)
           /\ ds_calls' = IF call = "datasets" THEN ds_calls
                          ELSE Append(ds_calls, ds_call_failed(path, ds_filter, call))
           /\ failure' = [call |-> call, ds_path |-> path]
    /\ cache_calls' = IF call = "workdir_diff_cache" THEN cache_calls + 1
                      ELSE cache_calls
    /\ idx' = idx + 1
    /\ pc' = "loop"
    /\ UNCHANGED <<base_rs, target_rs, working_copy, include_wc_diff,
                   workdir_diff_cache, repo_key_filter, all_ds_paths, repo_diff,
                   ds_path, ds_result, alg, help, fetch>>

\* A turn of the loop ended by the failure of a collaborator call: datasets()
\* at lines 66-67, or a call made by get_dataset_diff.  Nothing catches it:
\* repo_diff[ds_path] is not assigned and get_repo_diff raises.
get_repo_diff_loop_fails(call) ==
    /\ pc = "loop"
    /\ idx <= Len(all_ds_paths)
    /\ LET path == all_ds_paths[idx]
           ds_filter == RepoKeyFilter_getitem(repo_key_filter, path)
       IN  /\ call \in {"datasets"}
                        \cup collaborator_calls(path, base_rs, target_rs,
                                                include_wc_diff, workdir_diff_cache)
           /\ ds_calls' = IF call = "datasets" THEN ds_calls
                          ELSE Append(ds_calls, ds_call_failed(path, ds_filter, call))
           /\ failure' = [call |-> call, ds_path |-> path]
    /\ cache_calls' = IF call = "workdir_diff_cache" THEN cache_calls + 1
                      ELSE cache_calls
    /\ pc' = "raised"
    /\ UNCHANGED <<base_rs, target_rs, working_copy, include_wc_diff,
                   workdir_diff_cache, repo_key_filter, all_ds_paths, idx, repo_diff,
                   ds_path, ds_result, alg, help, fetch>>

\* The end of get_repo_diff: repo_diff.prune(recurse=False), and return.
get_repo_diff_return ==
    /\ pc = "loop"
    /\ idx > Len(all_ds_paths)
    /\ repo_diff' = RepoDiff_prune(repo_diff, FALSE)
    /\ pc' = "returned"
    /\ UNCHANGED <<base_rs, target_rs, working_copy, include_wc_diff,
                   workdir_diff_cache, repo_key_filter, all_ds_paths, idx,
                   cache_calls, ds_path, ds_result, ds_calls, failure, alg, help, fetch>>

Next ==
    \/ \E wc_diff \in BOOLEAN, cache \in CacheArgs,
          key_filter \in RepoKeyFilters(RepoPaths, RepoNestedFilters) :
            get_repo_diff_call(wc_diff, cache, key_filter)
    \/ \E wc_diff \in BOOLEAN, cache \in CacheArgs,
          key_filter \in RepoKeyFilters(RepoPaths, RepoNestedFilters),
          call \in CollaboratorCalls :
            get_repo_diff_call_fails(wc_diff, cache, key_filter, call)
    \/ get_repo_diff_loop
    \/ \E call \in CollaboratorCalls : get_repo_diff_loop_fails(call)
    \/ get_repo_diff_return

Spec == Init /\ [][Next]_vars

----------------------------------------------------------------------------
(* get_dataset_diff called on one dataset, of any content. *)

InitDs == InitRepository({PathParcels}, Datasets) /\ InitCall /\ alg = None /\ help = None /\ fetch = None

\* A call of get_dataset_diff with ds_filter = repo_key_filter[ds_path].
get_dataset_diff_call(path, wc_diff, cache, key_filter) ==
    /\ pc = "idle"
    /\ ds_path' = path
    /\ include_wc_diff' = wc_diff
    /\ workdir_diff_cache' = cache
    /\ repo_key_filter' = key_filter
    /\ ds_result' = get_dataset_diff(path, base_rs, target_rs, working_copy, wc_diff,
                                     cache, RepoKeyFilter_getitem(key_filter, path))
    /\ ds_calls' = <<ds_call(path, RepoKeyFilter_getitem(key_filter, path), ds_result')>>
    /\ pc' = IF ds_result'.raised THEN "raised" ELSE "returned"
    /\ cache_calls' = IF ds_result'.cache_created THEN cache_calls + 1 ELSE cache_calls
    /\ UNCHANGED <<base_rs, target_rs, working_copy, all_ds_paths, idx, repo_diff,
                   failure, alg, help, fetch>>

\* The repo_key_filter of the call: any filter of the dataset's features, and
\* one that names another dataset only.
DsCallFilters ==
    RepoKeyFilters({PathParcels}, DatasetKeyFilters)
        \cup {RepoKeyFilter([p \in {PathRoads} |-> DatasetKeyFilter_MATCH_ALL])}

NextDs ==
    \E wc_diff \in BOOLEAN, cache \in CacheArgs, key_filter \in DsCallFilters :
        get_dataset_diff_call(PathParcels, wc_diff, cache, key_filter)

SpecDs == InitDs /\ [][NextDs]_vars

----------------------------------------------------------------------------
(* get_all_ds_paths called on snapshots of up to three datasets. *)

PoolPaths == {PathRoads, PathParcels, PathPark}

OneContent == {CHOOSE ds \in RepoContents : TRUE}

InitPaths == InitRepository(PoolPaths, OneContent) /\ InitCall /\ alg = None /\ help = None /\ fetch = None

get_all_ds_paths_call(key_filter) ==
    /\ pc = "idle"
    /\ repo_key_filter' = key_filter
    /\ all_ds_paths' = get_all_ds_paths(base_rs, target_rs, key_filter)
    /\ pc' = "returned"
    /\ UNCHANGED <<base_rs, target_rs, working_copy, include_wc_diff,
                   workdir_diff_cache, idx, repo_diff, cache_calls, ds_path,
                   ds_result, ds_calls, failure, alg, help, fetch>>

NextPaths ==
    \E key_filter \in RepoKeyFilters(PoolPaths, {DatasetKeyFilter_MATCH_ALL}) :
        get_all_ds_paths_call(key_filter)

SpecPaths == InitPaths /\ [][NextPaths]_vars

----------------------------------------------------------------------------
(* prune and concatenation applied to any diff. *)

\* The deltas between the given values: old and new differ, either may be Absent.
Deltas(values) ==
    {Delta(o, n) : <<o, n>> \in {v \in (values \cup {Absent}) \X (values \cup {Absent}) :
                                    v[1] # v[2]}}

\* The DeltaDiffs over the given keys, the empty one among them.
DeltaDiffs(keys, values) == UNION {[present -> Deltas(values)] : present \in SUBSET keys}

\* The DatasetDiffs: some of the kinds, each with a DeltaDiff that may be empty.
DatasetDiffs(keys, values, schemas) ==
    UNION {{[kind \in kinds |-> IF kind = "meta" THEN pair[1] ELSE pair[2]] :
                pair \in DeltaDiffs(MetaKeys, schemas) \X DeltaDiffs(keys, values)} :
           kinds \in SUBSET Kinds}

\* The RepoDiffs over RepoPaths whose deltas are of the first key and value:
\* a path may be missing, or hold a DatasetDiff that may be empty.
RepoDiffs == Trees(RepoPaths, DatasetDiffs({1}, {1}, {1}))

EmptyOperands == {None, EmptyDiff, [kind \in Kinds |-> EmptyDiff]}

InitAlg ==
    /\ base_rs = [commit |-> "c1", tree |-> <<>>]
    /\ target_rs = base_rs
    /\ working_copy = <<>>
    /\ InitCall
    /\ \E level \in {"dataset", "repo"} :
        \E d \in IF level = "dataset" THEN DatasetDiffs(Keys, Vals, MetaVals)
                 ELSE RepoDiffs :
            alg = [level |-> level, input |-> d, op |-> "none", recurse |-> TRUE,
                   current |-> d, previous |-> d]
    /\ help = None
    /\ fetch = None

AlgFrame ==
    UNCHANGED <<base_rs, target_rs, working_copy, pc, include_wc_diff,
                workdir_diff_cache, repo_key_filter, all_ds_paths, idx, repo_diff,
                cache_calls, ds_path, ds_result, ds_calls, failure, help, fetch>>

\* diff.prune(recurse) on a DatasetDiff or a RepoDiff.
prune(self, level, recurse) ==
    IF level = "dataset" THEN DatasetDiff_prune(self, recurse)
    ELSE RepoDiff_prune(self, recurse)

\* The first diff.prune(recurse=recurse).
prune_call(recurse) ==
    /\ alg # None
    /\ alg.op = "none"
    /\ alg' = [alg EXCEPT !.op = "pruned", !.recurse = recurse,
                          !.previous = alg.current,
                          !.current = prune(alg.current, alg.level, recurse)]
    /\ AlgFrame

\* The same prune once more.
prune_again ==
    /\ alg # None
    /\ alg.op = "pruned"
    /\ alg' = [alg EXCEPT !.op = "pruned_twice",
                          !.previous = alg.current,
                          !.current = prune(alg.current, alg.level, alg.recurse)]
    /\ AlgFrame

\* DatasetDiff.concatenated(first, second) and prune, as get_dataset_diff ends,
\* with the diff on one side and an empty diff or None on the other.
concatenated_call(side, other) ==
    /\ alg # None
    /\ alg.op = "none"
    /\ alg.level = "dataset"
    /\ alg' = [alg EXCEPT !.op = side,
                          !.previous = other,
                          !.current = IF side = "first"
                                      THEN concatenate_and_prune(alg.input, other)
                                      ELSE concatenate_and_prune(other, alg.input)]
    /\ AlgFrame

NextAlg ==
    \/ \E recurse \in BOOLEAN : prune_call(recurse)
    \/ prune_again
    \/ \E side \in {"first", "second"}, other \in EmptyOperands :
            concatenated_call(side, other)

SpecAlg == InitAlg /\ [][NextAlg]_vars

----------------------------------------------------------------------------
(* DatasetDiff.concatenated on diffs held as objects: the containers of a    *)
(* diff have an identity, and a container can be changed in place.           *)

\* The store that holds the two diffs: top maps a DatasetDiff ("first",
\* "second") to the address of the DeltaDiff of each of its kinds, and leaf
\* maps the address of a DeltaDiff to its deltas.
StoreOf(first, second) ==
    LET value(name) == IF name = "first" THEN first ELSE second
    IN  [top |-> [name \in {"first", "second"} |->
                    [kind \in DOMAIN value(name) |-> [owner |-> name, kind |-> kind]]],
         leaf |-> [addr \in {[owner |-> name, kind |-> kind] :
                                name \in {"first", "second"}, kind \in Kinds}
                                \ {a \in [owner : {"first", "second"}, kind : Kinds] :
                                      a.kind \notin DOMAIN value(a.owner)} |->
                     value(addr.owner)[addr.kind]]]

\* The DatasetDiff that an object of the store holds.
ValueOf(store, name) ==
    [kind \in DOMAIN store.top[name] |-> store.leaf[store.top[name][kind]]]

\* The store with a copy of the first diff, "copy", added to it.  A deep copy
\* has DeltaDiffs of its own; a shallow one shares those of the first diff.
WithCopy(store, deep) ==
    LET kinds == DOMAIN store.top["first"]
        child(kind) == IF deep THEN [owner |-> "copy", kind |-> kind]
                       ELSE store.top["first"][kind]
        added == IF deep THEN {[owner |-> "copy", kind |-> kind] : kind \in kinds}
                 ELSE {}
    IN  [top |-> [name \in DOMAIN store.top \cup {"copy"} |->
                    IF name = "copy" THEN [kind \in kinds |-> child(kind)]
                    ELSE store.top[name]],
         leaf |-> [addr \in DOMAIN store.leaf \cup added |->
                    IF addr \in added THEN store.leaf[store.top["first"][addr.kind]]
                    ELSE store.leaf[addr]]]

\* The second diff concatenated into the object named into: a DeltaDiff that
\* both have is concatenated in place, one that only the second has is
\* carried over as it is.
MergedInto(store, into) ==
    LET mine == store.top[into]
        theirs == store.top["second"]
        matched == {mine[kind] : kind \in DOMAIN mine \cap DOMAIN theirs}
        kind_at(addr) == CHOOSE kind \in DOMAIN mine \cap DOMAIN theirs : mine[kind] = addr
    IN  [top |-> [name \in DOMAIN store.top |->
                    IF name = into
                    THEN [kind \in DOMAIN mine \cup DOMAIN theirs |->
                            IF kind \in DOMAIN mine THEN mine[kind] ELSE theirs[kind]]
                    ELSE store.top[name]],
         leaf |-> [addr \in DOMAIN store.leaf |->
                    IF addr \in matched
                    THEN DeltaDiff_concatenated(store.leaf[addr],
                                                store.leaf[theirs[kind_at(addr)]])
                    ELSE store.leaf[addr]]]

\* concatenated with overwrite_original=False working on a shallow copy.
concatenated_objects_shallow(store, overwrite_original) ==
    IF overwrite_original
    THEN [store |-> MergedInto(store, "first"), result |-> "first"]
    ELSE [store |-> MergedInto(WithCopy(store, FALSE), "copy"), result |-> "copy"]

\* DatasetDiff.concatenated(first, second, overwrite_original=...): the store
\* it leaves and the object it returns.
concatenated_objects(store, overwrite_original) ==
    IF overwrite_original
    THEN [store |-> MergedInto(store, "first"), result |-> "first"]
    ELSE [store |-> MergedInto(WithCopy(store, TRUE), "copy"), result |-> "copy"]

\* The diffs concatenated: of every feature key, the first value and one schema.
ObjectDiffs == DatasetDiffs(Keys, {1}, MetaVals)

InitObjects ==
    /\ base_rs = [commit |-> "c1", tree |-> <<>>]
    /\ target_rs = base_rs
    /\ working_copy = <<>>
    /\ InitCall
    /\ help = None
    /\ fetch = None
    /\ \E first \in ObjectDiffs, second \in ObjectDiffs :
        alg = [op |-> "none", overwrite_original |-> FALSE,
               before |-> StoreOf(first, second), after |-> StoreOf(first, second),
               result |-> "first"]

\* DatasetDiff.concatenated(first, second, overwrite_original=overwrite)
concatenated_objects_call(overwrite) ==
    /\ alg # None
    /\ alg.op = "none"
    /\ LET done == concatenated_objects(alg.before, overwrite)
       IN  alg' = [alg EXCEPT !.op = "concatenated", !.overwrite_original = overwrite,
                              !.after = done.store, !.result = done.result]
    /\ AlgFrame

NextObjects == \E overwrite \in BOOLEAN : concatenated_objects_call(overwrite)

SpecObjects == InitObjects /\ [][NextObjects]_vars

----------------------------------------------------------------------------
(* kart/help.py: PagingHelpRenderer.get_pager_cmdline. *)

\* The longest value of an environment variable.
MaxPagerLen == 3

\* The characters of a pager command line: space, single quote and letters.
Space == 32
Quote == 39
PagerChars == {Space, Quote, 108, 109}

\* PosixHelpRenderer.PAGER = "less -R" and WindowsHelpRenderer.PAGER = "more"
PosixPAGER == <<108, 101, 115, 115, 32, 45, 82>>
WindowsPAGER == <<109, 111, 114, 101>>

\* The strings of at most MaxPagerLen characters.
PagerStrings == UNION {[1 .. n -> PagerChars] : n \in 0 .. MaxPagerLen}

\* os.environ as far as get_pager_cmdline reads it: MANPAGER and PAGER, each
\* set to a string or not set.
Environs ==
    UNION {[names -> PagerStrings] : names \in SUBSET {"MANPAGER", "PAGER"}}

\* shlex.split(s), on letters, spaces and single quotes: words are separated
\* by spaces, a quoted part is taken as it is and joins the word around it,
\* '' alone is an empty word, and a quote that is not closed is a ValueError.
RECURSIVE shlex_scan(_, _, _, _, _)
shlex_scan(rest, tokens, token, in_token, in_quote) ==
    IF rest = <<>>
    THEN IF in_quote THEN [raised |-> TRUE, cmdline |-> <<>>]
         ELSE [raised |-> FALSE,
               cmdline |-> IF in_token THEN Append(tokens, token) ELSE tokens]
    ELSE LET c == Head(rest)
         IN  IF in_quote
             THEN IF c = Quote
                  THEN shlex_scan(Tail(rest), tokens, token, TRUE, FALSE)
                  ELSE shlex_scan(Tail(rest), tokens, Append(token, c), TRUE, TRUE)
             ELSE IF c = Quote
             THEN shlex_scan(Tail(rest), tokens, token, TRUE, TRUE)
             ELSE IF c = Space
             THEN shlex_scan(Tail(rest),
                             IF in_token THEN Append(tokens, token) ELSE tokens,
                             <<>>, FALSE, FALSE)
             ELSE shlex_scan(Tail(rest), tokens, Append(token, c), TRUE, FALSE)

shlex_split(s) == shlex_scan(s, <<>>, <<>>, FALSE, FALSE)

\* The choice of pager with PAGER looked up before MANPAGER.
pager_of_pager_first(default_pager, environ) ==
    IF "PAGER" \in DOMAIN environ THEN environ["PAGER"]
    ELSE IF "MANPAGER" \in DOMAIN environ THEN environ["MANPAGER"]
    ELSE default_pager

\* The pager of get_pager_cmdline: MANPAGER, else PAGER, else self.PAGER.
pager_of(default_pager, environ) ==
    IF "MANPAGER" \in DOMAIN environ THEN environ["MANPAGER"]
    ELSE IF "PAGER" \in DOMAIN environ THEN environ["PAGER"]
    ELSE default_pager

\* A renderer of get_renderer() in some environment, get_pager_cmdline not
\* yet called.
InitHelp ==
    /\ base_rs = [commit |-> "c1", tree |-> <<>>]
    /\ target_rs = base_rs
    /\ working_copy = <<>>
    /\ InitCall
    /\ alg = None
    /\ fetch = None
    /\ help \in [PAGER : {PosixPAGER, WindowsPAGER}, environ : Environs,
                 pc : {"idle"}, cmdline : {<<>>}]

\* self.get_pager_cmdline(): the command line returned, or ValueError.
get_pager_cmdline ==
    /\ help # None
    /\ help.pc = "idle"
    /\ LET split == shlex_split(pager_of(help.PAGER, help.environ))
       IN  help' = [help EXCEPT !.pc = IF split.raised THEN "raised" ELSE "returned",
                                !.cmdline = split.cmdline]
    /\ UNCHANGED <<base_rs, target_rs, working_copy, pc, include_wc_diff,
                   workdir_diff_cache, repo_key_filter, all_ds_paths, idx, repo_diff,
                   cache_calls, ds_path, ds_result, ds_calls, failure, alg, fetch>>

NextHelp == get_pager_cmdline

SpecHelp == InitHelp /\ [][NextHelp]_vars

----------------------------------------------------------------------------
(* kart/promisor_utils.py: fetch_promised_blobs_process, the context manager *)
(* around a git-fetch process, with fetch_promised_blobs as its body.        *)

\* The largest exit code of the git-fetch process.
MaxExitCode == 2
\* The largest number of promised blob ids to write.
MaxBlobs == 3

\* p.returncode before p.wait(): None.
NoReturncode == -1

\* The context manager is entered for some number of promised blob ids; the
\* process, once started, will exit with some code.
InitFetch ==
    /\ base_rs = [commit |-> "c1", tree |-> <<>>]
    /\ target_rs = base_rs
    /\ working_copy = <<>>
    /\ InitCall
    /\ alg = None
    /\ help = None
    /\ fetch \in [pc : {"start"}, exit_code : 0 .. MaxExitCode, blobs : 0 .. MaxBlobs,
                  written : {0}, alive : {FALSE}, body : {"running"},
                  stdin_closed : {FALSE}, waited : {FALSE},
                  returncode : {NoReturncode}, raised : {"none"},
                  raised_exit_code : {NoReturncode}]

FetchFrame ==
    UNCHANGED <<base_rs, target_rs, working_copy, pc, include_wc_diff,
                workdir_diff_cache, repo_key_filter, all_ds_paths, idx, repo_diff,
                cache_calls, ds_path, ds_result, ds_calls, failure, alg, help>>

\* p = subprocess.Popen(cmd, ...), and yield p.
Popen ==
    /\ fetch # None
    /\ fetch.pc = "start"
    /\ fetch' = [fetch EXCEPT !.pc = "body", !.alive = TRUE]
    /\ FetchFrame

\* The git-fetch process exits by itself: at any time while the body runs
\* (it dies early), or after its stdin is closed.
git_fetch_exits ==
    /\ fetch # None
    /\ fetch.pc \in {"body", "else", "wait"}
    /\ fetch.alive
    /\ fetch' = [fetch EXCEPT !.alive = FALSE]
    /\ FetchFrame

\* Where the generator goes when the body raised an exception at the yield.
resume_after(exception) == IF exception = "BrokenPipeError" THEN "wait" ELSE "left"

\* One turn of the body's loop: p.stdin.write(...) is buffered or written, or
\* raises BrokenPipeError when the process has exited, or the turn raises
\* some other exception.  BrokenPipeError is caught at line 65; any other
\* exception leaves the generator at the yield.
write_blob(outcome) ==
    /\ fetch # None
    /\ fetch.pc = "body"
    /\ fetch.written < fetch.blobs
    /\ outcome = "BrokenPipeError" => ~fetch.alive
    /\ fetch' = IF outcome = "written"
                THEN [fetch EXCEPT !.written = fetch.written + 1]
                ELSE [fetch EXCEPT !.body = outcome,
                                   !.pc = resume_after(outcome),
                                   !.raised = IF outcome = "BrokenPipeError"
                                              THEN "none" ELSE outcome]
    /\ FetchFrame

\* The body ends normally: the else clause of the try is next.
body_ends ==
    /\ fetch # None
    /\ fetch.pc = "body"
    /\ fetch.written = fetch.blobs
    /\ fetch' = [fetch EXCEPT !.body = "normal", !.pc = "else"]
    /\ FetchFrame

\* p.stdin.close() in the else clause: it flushes what is buffered, and raises
\* BrokenPipeError when there is something to flush and the process has
\* exited; nothing catches an exception of the else clause.
stdin_close(outcome) ==
    /\ fetch # None
    /\ fetch.pc = "else"
    /\ outcome = "BrokenPipeError" => (~fetch.alive /\ fetch.written > 0)
    /\ fetch' = [fetch EXCEPT !.stdin_closed = TRUE,
                              !.pc = IF outcome = "closed" THEN "wait" ELSE "left",
                              !.raised = IF outcome = "closed" THEN "none" ELSE outcome]
    /\ FetchFrame

\* p.wait() returns once the process has exited.
p_wait ==
    /\ fetch # None
    /\ fetch.pc = "wait"
    /\ ~fetch.alive
    /\ fetch' = [fetch EXCEPT !.waited = TRUE, !.returncode = fetch.exit_code,
                              !.pc = "check"]
    /\ FetchFrame

\* if p.returncode != 0: raise SubprocessError(..., exit_code=p.returncode)
raise_if_failed ==
    /\ fetch # None
    /\ fetch.pc = "check"
    /\ fetch' = IF fetch.returncode # 0
                THEN [fetch EXCEPT !.pc = "left", !.raised = "SubprocessError",
                                   !.raised_exit_code = fetch.returncode]
                ELSE [fetch EXCEPT !.pc = "left"]
    /\ FetchFrame

NextFetch ==
    \/ Popen
    \/ git_fetch_exits
    \/ \E outcome \in {"written", "BrokenPipeError", "Exception"} : write_blob(outcome)
    \/ body_ends
    \/ \E outcome \in {"closed", "BrokenPipeError"} : stdin_close(outcome)
    \/ p_wait
    \/ raise_if_failed

SpecFetch == InitFetch /\ [][NextFetch]_vars

----------------------------------------------------------------------------
(* The properties of get_dataset_diff, under SpecDs. *)

\* The datasets of the call, and the filter it is given.
BaseDs == Get(base_rs, ds_path)
TargetDs == Get(target_rs, ds_path)
WcDs == working_copy[ds_path]
DsFilter == RepoKeyFilter_getitem(repo_key_filter, ds_path)

\* Whether a DatasetDiff has an entry for item k of the given kind.
HasEntry(ds_diff, kind, k) == kind \in DOMAIN ds_diff /\ k \in DOMAIN ds_diff[kind]

\* The base<>target diff as get_dataset_diff takes it, from the side that exists.
DiffBetween(a, b, ds_filter) ==
    LET dir == diff_direction(a, b)
    IN  diff(dir[1], dir[2], ds_filter, dir[3])

\* A call that returned, with the working-copy diff, for a dataset in both snapshots.
ReturnedWcDiffOfBoth ==
    /\ pc = "returned"
    /\ include_wc_diff
    /\ BaseDs # None
    /\ TargetDs # None

\* C1: get_dataset_diff with include_wc_diff=True on a dataset present in both
\* snapshots: a feature key whose value changed between base and target and
\* whose working-copy value is the base value again has no entry in the
\* DatasetDiff returned.
C1_ChangedBackHasNoEntry ==
    ReturnedWcDiffOfBoth =>
        \A k \in Keys :
            (/\ BaseDs.feature[k] # TargetDs.feature[k]
             /\ WcDs.feature[k] = BaseDs.feature[k])
                => ~HasEntry(ds_result.ds_diff, "feature", k)

\* C1's case: a key the filter accepts was changed and changed back, while the
\* diff returned still holds another change.
C1_Witness ==
    /\ ReturnedWcDiffOfBoth
    /\ \E k \in Keys :
        /\ KeyMatches(DsFilter, "feature", k)
        /\ BaseDs.feature[k] # TargetDs.feature[k]
        /\ WcDs.feature[k] = BaseDs.feature[k]
    /\ "feature" \in DOMAIN ds_result.ds_diff

\* C2: cancellation.  With diff(A,B) the base<>target diff and diff(B,A) the
\* diff to a working copy that holds A again, the concatenated and pruned diff
\* has no entry for any feature key that differs between A and B, and is empty.
C2_Cancellation ==
    (/\ ReturnedWcDiffOfBoth
     /\ base_rs # target_rs
     /\ WcDs = BaseDs)
        => /\ \A k \in Keys :
                BaseDs.feature[k] # TargetDs.feature[k]
                    => ~HasEntry(ds_result.ds_diff, "feature", k)
           /\ IsEmpty(ds_result.ds_diff)

\* C2's case: A and B differ in a feature key the filter accepts.
C2_Witness ==
    /\ ReturnedWcDiffOfBoth
    /\ base_rs # target_rs
    /\ WcDs = BaseDs
    /\ \E k \in Keys :
        /\ KeyMatches(DsFilter, "feature", k)
        /\ BaseDs.feature[k] # TargetDs.feature[k]

\* A call that returned the concatenation of a base<>target diff (A to B) and a
\* diff to the working copy (B to C).
ReturnedConcatenation ==
    /\ pc = "returned"
    /\ include_wc_diff
    /\ base_rs # target_rs
    /\ TargetDs # None

\* C3: the concatenation of d1 (A to B) and d2 (B to C) has, for every key in
\* either, old = d1's old if the key is in d1, else d2's old, and new = d2's new
\* if the key is in d2, else d1's new; a key in both whose old equals its new
\* is absent.  And the result, pruned, is diff(A,C).
C3_Concatenation ==
    ReturnedConcatenation =>
        LET d1 == DiffBetween(BaseDs, TargetDs, DsFilter)
            d2 == diff_to_working_copy(TargetDs, WcDs, DsFilter)
            res == ds_result.ds_diff
        IN  /\ \A kind \in Kinds : \A k \in DOMAIN d1[kind] \cup DOMAIN d2[kind] :
                LET o == IF k \in DOMAIN d1[kind] THEN d1[kind][k].old
                         ELSE d2[kind][k].old
                    n == IF k \in DOMAIN d2[kind] THEN d2[kind][k].new
                         ELSE d1[kind][k].new
                IN  IF k \in DOMAIN d1[kind] /\ k \in DOMAIN d2[kind] /\ o = n
                    THEN ~HasEntry(res, kind, k)
                    ELSE HasEntry(res, kind, k) /\ res[kind][k] = Delta(o, n)
            /\ \A kind \in DOMAIN res :
                DOMAIN res[kind] \subseteq DOMAIN d1[kind] \cup DOMAIN d2[kind]
            /\ res = DatasetDiff_prune(DiffBetween(BaseDs, WcDs, DsFilter), TRUE)

\* C3's case: a feature key in both diffs whose old and new differ in the
\* result, and a key in one of the diffs only.
C3_Witness ==
    /\ ReturnedConcatenation
    /\ BaseDs # None
    /\ \E k \in Keys :
        /\ KeyMatches(DsFilter, "feature", k)
        /\ BaseDs.feature[k] # TargetDs.feature[k]
        /\ TargetDs.feature[k] # WcDs.feature[k]
        /\ BaseDs.feature[k] # WcDs.feature[k]
        /\ \E j \in Keys \ {k} :
            /\ KeyMatches(DsFilter, "feature", j)
            /\ BaseDs.feature[j] = TargetDs.feature[j]
            /\ TargetDs.feature[j] # WcDs.feature[j]

\* A call that returned the base<>target diff alone, of two distinct snapshots.
ReturnedSnapshotDiff ==
    /\ pc = "returned"
    /\ ~include_wc_diff
    /\ base_rs # target_rs

\* C6: reversal.  diff(A,B) with old and new swapped in every delta is
\* diff(B,A): the call with base and target exchanged returns the reversed
\* diff.  And for a dataset absent from base, target_ds.diff(None,
\* reverse=True) is the base<>target diff: every item of the target that the
\* filter accepts is an insert, Delta(Absent, value).
C6_Reversal ==
    ReturnedSnapshotDiff =>
        LET exchanged == get_dataset_diff(ds_path, target_rs, base_rs, working_copy,
                                          FALSE, workdir_diff_cache, DsFilter)
            res == ds_result.ds_diff
        IN  /\ ~exchanged.raised
            /\ exchanged.ds_diff = DatasetDiff_reversed(res)
            /\ BaseDs = None =>
                \A kind \in Kinds : \A k \in KindKeys(kind) :
                    IF KeyMatches(DsFilter, kind, k) /\ TargetDs[kind][k] # Absent
                    THEN HasEntry(res, kind, k)
                         /\ res[kind][k] = Delta(Absent, TargetDs[kind][k])
                    ELSE ~HasEntry(res, kind, k)

\* C6's case: a dataset absent from base whose target holds a feature that the
\* filter accepts.
C6_Witness ==
    /\ ReturnedSnapshotDiff
    /\ BaseDs = None
    /\ \E k \in Keys : /\ KeyMatches(DsFilter, "feature", k)
                       /\ HasEntry(ds_result.ds_diff, "feature", k)

\* C8: filter narrowing.  For a repo_key_filter that is not match-all and a
\* dataset path that is not in its explicit set, get_dataset_diff with
\* ds_filter = repo_key_filter[ds_path] returns an empty DatasetDiff, whatever
\* the dataset's changes between base, target and the working copy.
C8_FilterNarrowing ==
    (/\ pc # "idle"
     /\ ~repo_key_filter.match_all
     /\ ds_path \notin DOMAIN repo_key_filter.map
     /\ (BaseDs # None \/ TargetDs # None))
        => /\ pc = "returned"
           /\ IsEmpty(ds_result.ds_diff)

\* What holds of C8: a call that returns, returns an empty DatasetDiff.
C8_EmptyWhenReturned ==
    (/\ pc = "returned"
     /\ ~repo_key_filter.match_all
     /\ ds_path \notin DOMAIN repo_key_filter.map)
        => IsEmpty(ds_result.ds_diff)

\* A call that returned the base<>target diff of a dataset that only one of
\* the two snapshots holds.
ReturnedDiffOfOne ==
    /\ ReturnedSnapshotDiff
    /\ (BaseDs = None) # (TargetDs = None)

\* C11: a dataset in exactly one of the two snapshots, no working-copy diff.
\* Every delta of the DatasetDiff returned has Absent on the side of the
\* snapshot that lacks the dataset, and every item of the dataset that the
\* filter accepts has its delta: only in target, every feature is an insert
\* Delta(Absent, target value); only in base, every feature is a delete
\* Delta(base value, Absent).
C11_OneSidedDeltas ==
    ReturnedDiffOfOne =>
        LET res == ds_result.ds_diff
            only == IF BaseDs = None THEN TargetDs ELSE BaseDs
            one_sided(value) == IF BaseDs = None THEN Delta(Absent, value)
                                ELSE Delta(value, Absent)
        IN  /\ \A kind \in DOMAIN res : \A k \in DOMAIN res[kind] :
                IF BaseDs = None THEN res[kind][k].old = Absent /\ res[kind][k].new # Absent
                ELSE res[kind][k].new = Absent /\ res[kind][k].old # Absent
            /\ \A kind \in Kinds : \A k \in KindKeys(kind) :
                (KeyMatches(DsFilter, kind, k) /\ only[kind][k] # Absent)
                    => /\ HasEntry(res, kind, k)
                       /\ res[kind][k] = one_sided(only[kind][k])

\* C11's case: a dataset of two features that is in the target only, returned
\* as two inserts.
C11_Witness ==
    /\ ReturnedDiffOfOne
    /\ BaseDs = None
    /\ \A k \in Keys : /\ TargetDs.feature[k] # Absent
                       /\ HasEntry(ds_result.ds_diff, "feature", k)

\* A call with include_wc_diff=True for a dataset that the base holds and the
\* target does not.
WcDiffOfDeleted ==
    /\ pc # "idle"
    /\ include_wc_diff
    /\ BaseDs # None
    /\ TargetDs = None

\* C12: get_dataset_diff with include_wc_diff=True for a dataset absent from
\* the target snapshot and present in base attempts no working-copy diff and
\* returns the pruned base<>target diff, whatever workdir_diff_cache is, None
\* included.
C12_NoWcDiffOfDeleted ==
    WcDiffOfDeleted =>
        /\ pc = "returned"
        /\ ds_result.wc_cache = None
        /\ ds_result.ds_diff
            = DatasetDiff_prune(diff(BaseDs, None, DsFilter, FALSE), TRUE)

\* What holds of C12: with a workdir_diff_cache supplied, the call returns the
\* pruned base<>target diff and attempts no working-copy diff.
C12_HoldsWithCacheSupplied ==
    (WcDiffOfDeleted /\ workdir_diff_cache # None) =>
        /\ pc = "returned"
        /\ ds_result.wc_cache = None
        /\ ds_result.ds_diff
            = DatasetDiff_prune(diff(BaseDs, None, DsFilter, FALSE), TRUE)

\* C12's failing call: no workdir_diff_cache supplied, and the call raised.
C12_RaisedWithoutCache ==
    /\ WcDiffOfDeleted
    /\ workdir_diff_cache = None
    /\ pc = "raised"

\* A call for a path that neither snapshot holds.
CallOfNeither ==
    /\ pc # "idle"
    /\ BaseDs = None
    /\ TargetDs = None

\* C14: get_dataset_diff called for a path present in neither the base nor the
\* target snapshot fails with an error and returns no DatasetDiff, whether the
\* two sources are distinct or identical and whatever include_wc_diff is.
C14_NeitherSnapshotFails ==
    CallOfNeither => (pc = "raised" /\ ds_result.ds_diff = None)

\* What holds of C14: the call fails when the two sources are distinct, and
\* when they are identical and it has to acquire the cache.
C14_FailsOnNoneAttribute ==
    (/\ CallOfNeither
     /\ (base_rs # target_rs \/ (include_wc_diff /\ workdir_diff_cache = None)))
        => pc = "raised"

\* C14's failing call: one source for base and target, no working-copy diff,
\* and an empty DatasetDiff returned.
C14_ReturnedEmpty ==
    /\ CallOfNeither
    /\ base_rs = target_rs
    /\ ~include_wc_diff
    /\ pc = "returned"
    /\ IsEmpty(ds_result.ds_diff)

\* A DatasetKeyFilter that lets no item into a diff.
MatchesNothing(ds_filter) ==
    \A kind \in Kinds : \A k \in KindKeys(kind) : ~KeyMatches(ds_filter, kind, k)

\* C16: a repo_key_filter that is not match-all, indexed by a path missing
\* from its mapping, gives an empty filter, which matches nothing, and the
\* call goes on with it; indexed by a path of its mapping, it gives the nested
\* filter of that path.
C16_MissingKeyMatchesNothing ==
    (pc # "idle" /\ ~repo_key_filter.match_all) =>
        /\ Len(ds_calls) = 1
        /\ LET ds_filter == ds_calls[1].ds_filter
           IN  IF ds_path \in DOMAIN repo_key_filter.map
               THEN ds_filter = repo_key_filter.map[ds_path]
               ELSE /\ ds_filter = DatasetKeyFilter({})
                    /\ MatchesNothing(ds_filter)

\* C16's case: the filter names another dataset only, the dataset of the call
\* differs between base and target, and the call returned an empty diff.
C16_Witness ==
    /\ pc = "returned"
    /\ ~repo_key_filter.match_all
    /\ repo_key_filter.map # <<>>
    /\ ds_path \notin DOMAIN repo_key_filter.map
    /\ BaseDs # None
    /\ TargetDs # None
    /\ BaseDs # TargetDs
    /\ IsEmpty(ds_result.ds_diff)

\* A call with one source for base and target, for a dataset it holds.
CallOfOneSource ==
    /\ pc # "idle"
    /\ base_rs = target_rs
    /\ TargetDs # None

\* C20: when the base and target sources are identical, get_dataset_diff
\* computes no snapshot-to-snapshot diff.  With include_wc_diff=True it returns
\* the pruned target-to-working-copy diff, in which a feature deleted in the
\* working copy is Delta(snapshot value, Absent); with include_wc_diff=False it
\* returns an empty diff.
C20_OneSourceIsWcDiffOnly ==
    CallOfOneSource =>
        /\ pc = "returned"
        /\ ~ds_result.diff_called
        /\ IF include_wc_diff
           THEN /\ ds_result.ds_diff
                    = DatasetDiff_prune(diff_to_working_copy(TargetDs, WcDs, DsFilter), TRUE)
                /\ \A k \in Keys :
                    (/\ KeyMatches(DsFilter, "feature", k)
                     /\ TargetDs.feature[k] # Absent
                     /\ WcDs.feature[k] = Absent)
                        => /\ HasEntry(ds_result.ds_diff, "feature", k)
                           /\ ds_result.ds_diff.feature[k]
                                = Delta(TargetDs.feature[k], Absent)
           ELSE IsEmpty(ds_result.ds_diff)

\* C20's case: the first feature is deleted in the working copy and nothing
\* else differs; the diff returned is that delete alone.
C20_Witness ==
    /\ CallOfOneSource
    /\ include_wc_diff
    /\ DsFilter.match_all
    /\ TargetDs.feature[1] # Absent
    /\ WcDs = [TargetDs EXCEPT !.feature[1] = Absent]
    /\ ds_result.ds_diff
        = [kind \in {"feature"} |-> [k \in {1} |-> Delta(TargetDs.feature[1], Absent)]]

----------------------------------------------------------------------------
(* The properties of prune and concatenation, under SpecAlg. *)

\* A DatasetDiff that holds no empty DeltaDiff.
IsPruned(ds_diff) == \A kind \in DOMAIN ds_diff : ~IsEmpty(ds_diff[kind])

\* C4: concatenation identity.  A pruned diff concatenated with an empty diff
\* on either side, or with None in its place as get_dataset_diff passes it,
\* and pruned, is the diff itself.
C4_ConcatenationIdentity ==
    (/\ alg # None
     /\ alg.op \in {"first", "second"}
     /\ IsPruned(alg.input))
        => alg.current = alg.input

\* C4's case: a diff of both kinds concatenated after None, as in a call of
\* get_dataset_diff with one source for base and target.
C4_Witness ==
    /\ alg # None
    /\ alg.op = "second"
    /\ alg.previous = None
    /\ IsPruned(alg.input)
    /\ DOMAIN alg.input = Kinds
    /\ alg.current = alg.input

\* C5: idempotent pruning.  A second prune of a RepoDiff or DatasetDiff leaves
\* it as the first prune left it.
C5_IdempotentPruning ==
    (alg # None /\ alg.op = "pruned_twice") => alg.current = alg.previous

\* C5's case: a RepoDiff pruned twice, whose first prune removed a DatasetDiff
\* that held only empty DeltaDiffs.
C5_Witness ==
    /\ alg # None
    /\ alg.op = "pruned_twice"
    /\ alg.level = "repo"
    /\ \E path \in DOMAIN alg.input :
        /\ ~IsEmpty(alg.input[path])
        /\ path \notin DOMAIN alg.current

\* Whether an object of the store before concatenated is as it was after it,
\* its own container and the DeltaDiffs under it.
Untouched(name) ==
    /\ alg.after.top[name] = alg.before.top[name]
    /\ \A kind \in DOMAIN alg.before.top[name] :
        alg.after.leaf[alg.before.top[name][kind]]
            = alg.before.leaf[alg.before.top[name][kind]]

----------------------------------------------------------------------------
(* The properties of get_all_ds_paths, under SpecPaths. *)

\* Whether repo_key_filter accepts a dataset path.
Accepted(path) == repo_key_filter.match_all \/ path \in DOMAIN repo_key_filter.map

\* C7: get_all_ds_paths returns exactly the paths of base or target that
\* repo_key_filter accepts, each once, in ascending order.
C7_PathUnion ==
    pc = "returned" =>
        /\ {all_ds_paths[i] : i \in 1 .. Len(all_ds_paths)}
            = {p \in DOMAIN base_rs.tree \cup DOMAIN target_rs.tree : Accepted(p)}
        /\ \A i, j \in 1 .. Len(all_ds_paths) :
            i < j => StrLess(all_ds_paths[i], all_ds_paths[j])

\* C7's case: three datasets, one in base only and one in target only, two of
\* them accepted by a filter that is not match-all.
C7_Witness ==
    /\ pc = "returned"
    /\ ~repo_key_filter.match_all
    /\ Len(all_ds_paths) = 2
    /\ DOMAIN base_rs.tree \cup DOMAIN target_rs.tree = PoolPaths
    /\ all_ds_paths[1] \notin DOMAIN target_rs.tree
    /\ all_ds_paths[2] \notin DOMAIN base_rs.tree

\* The paths that get_all_ds_paths returned, and the candidates it filtered.
ReturnedPaths == {all_ds_paths[i] : i \in 1 .. Len(all_ds_paths)}
CandidatePaths == DOMAIN base_rs.tree \cup DOMAIN target_rs.tree

\* C17: filter_keys(candidate_keys) on a filter that is not match-all returns
\* exactly the candidates that are in the filter's explicit key set, never a
\* key outside candidate_keys and never one outside the explicit set, and
\* these are the paths get_all_ds_paths returns; on a match-all filter it
\* returns candidate_keys unchanged.
C17_FilterKeysIntersection ==
    pc = "returned" =>
        LET kept == filter_keys(repo_key_filter, CandidatePaths)
        IN  IF repo_key_filter.match_all
            THEN kept = CandidatePaths /\ ReturnedPaths = CandidatePaths
            ELSE /\ kept = {c \in CandidatePaths : c \in DOMAIN repo_key_filter.map}
                 /\ kept \subseteq CandidatePaths
                 /\ kept \subseteq DOMAIN repo_key_filter.map
                 /\ ReturnedPaths = kept

\* C17's case: the filter names a path of the snapshots and a path of neither,
\* and the snapshots hold a path the filter does not name.
C17_Witness ==
    /\ pc = "returned"
    /\ ~repo_key_filter.match_all
    /\ DOMAIN repo_key_filter.map \ CandidatePaths # {}
    /\ CandidatePaths \ DOMAIN repo_key_filter.map # {}
    /\ ReturnedPaths # {}

----------------------------------------------------------------------------
(* The properties of get_repo_diff, under Spec. *)

\* The content a dataset ends with: the working copy's when the working-copy
\* diff is included and the target has the dataset, else the target's.
FinalDs(path) ==
    IF include_wc_diff /\ path \in DOMAIN target_rs.tree THEN working_copy[path]
    ELSE Get(target_rs, path)

\* C9: under a repo_key_filter that is not match-all, the RepoDiff of
\* get_repo_diff, while it is built and as it is returned, has entries only
\* for the paths the filter accepts.
C9_OnlyAcceptedPaths ==
    (pc \in {"loop", "returned"} /\ ~repo_key_filter.match_all)
        => \A path \in DOMAIN repo_diff : Accepted(path)

\* C9's case: a dataset outside the filter has changes, and the RepoDiff
\* returned holds another dataset.
C9_Witness ==
    /\ pc = "returned"
    /\ ~repo_key_filter.match_all
    /\ \E path \in RepoPaths : /\ ~Accepted(path)
                               /\ Get(base_rs, path) # FinalDs(path)
    /\ repo_diff # EmptyDiff

\* C10: the RepoDiff returned is pruned at every level: no path maps to an
\* empty DatasetDiff, no DatasetDiff holds an empty DeltaDiff, and a dataset
\* with no changes has no entry.
C10_FullyPruned ==
    pc = "returned" =>
        /\ \A path \in DOMAIN repo_diff :
            /\ ~IsEmpty(repo_diff[path])
            /\ \A kind \in DOMAIN repo_diff[path] : ~IsEmpty(repo_diff[path][kind])
        /\ \A path \in RepoPaths :
            Get(base_rs, path) = FinalDs(path) => path \notin DOMAIN repo_diff

\* C10's case: one dataset's change is undone in the working copy, so that its
\* DatasetDiff is empty and is pruned at the top level; another's DatasetDiff
\* is left with one kind after its own prune.
C10_Witness ==
    /\ pc = "returned"
    /\ \E path \in RepoPaths :
        /\ Accepted(path)
        /\ Get(base_rs, path) # Get(target_rs, path)
        /\ Get(base_rs, path) = FinalDs(path)
        /\ path \notin DOMAIN repo_diff
    /\ \E path \in DOMAIN repo_diff : DOMAIN repo_diff[path] = {"feature"}

\* The caches that the get_dataset_diff calls made so far handed to
\* diff_to_working_copy.
WcCaches == {ds_calls[i].wc_cache : i \in DOMAIN ds_calls} \ {None}

\* C13: within one get_repo_diff invocation workdir_diff_cache() is called at
\* most once, and only when include_wc_diff is true and no cache was supplied
\* (never when include_wc_diff is false or a cache was supplied), and every
\* diff_to_working_copy call of the invocation receives the same cache: the
\* one supplied, or the one acquired.
C13_OneSharedCache ==
    pc \in {"loop", "returned", "raised"} =>
        /\ cache_calls <= 1
        /\ cache_calls = 1 =>
            (include_wc_diff /\ workdir_diff_cache # [cache |-> "supplied"])
        /\ (~include_wc_diff \/ workdir_diff_cache = [cache |-> "supplied"]) =>
            cache_calls = 0
        /\ WcCaches \subseteq {workdir_diff_cache}

\* C13's case: no cache supplied, and two datasets each diffed to the working
\* copy with the one cache acquired.
C13_Witness ==
    /\ pc = "returned"
    /\ include_wc_diff
    /\ cache_calls = 1
    /\ Len(ds_calls) = 2
    /\ \A i \in DOMAIN ds_calls : ds_calls[i].wc_cache = [cache |-> "created"]

\* C15: indexing a match-all filter by any key gives a match-all filter:
\* RepoKeyFilter.MATCH_ALL[path] is DatasetKeyFilter.MATCH_ALL for every path,
\* so get_repo_diff with the default repo_key_filter passes a match-all
\* ds_filter to every get_dataset_diff call.
C15_MatchAllAbsorbs ==
    /\ \A path \in PoolPaths :
        RepoKeyFilter_getitem(RepoKeyFilter_MATCH_ALL, path) = DatasetKeyFilter_MATCH_ALL
    /\ (pc # "idle" /\ repo_key_filter = RepoKeyFilter_MATCH_ALL) =>
        \A i \in DOMAIN ds_calls :
            /\ ds_calls[i].ds_filter.match_all
            /\ ds_calls[i].ds_filter = DatasetKeyFilter_MATCH_ALL

\* C15's case: the default filter, and two datasets diffed.
C15_Witness ==
    /\ pc = "returned"
    /\ repo_key_filter = RepoKeyFilter_MATCH_ALL
    /\ Len(ds_calls) = 2
    /\ \A i \in DOMAIN ds_calls : ds_calls[i].ds_filter.match_all

\* C18: if a collaborator call made during get_repo_diff (datasets(), get,
\* diff, diff_to_working_copy, workdir_diff_cache) fails, get_repo_diff fails
\* with that failure: the step that meets the failure raises it and leaves
\* the RepoDiff and the position of the loop as they were, and no step follows
\* it, so the call is not retried, no further dataset is processed and no
\* RepoDiff is returned.
C18_FailurePropagates ==
    [][/\ failure = None
       /\ failure' # None =>
            /\ pc' = "raised"
            /\ failure'.call \in CollaboratorCalls
            /\ repo_diff' = repo_diff
            /\ idx' = idx]_vars

\* C18's case: diff_to_working_copy failed on the second of two datasets, the
\* first being in the RepoDiff already.
C18_Witness ==
    /\ pc = "raised"
    /\ failure # None
    /\ failure.call = "diff_to_working_copy"
    /\ Len(all_ds_paths) = 2
    /\ idx = 2
    /\ failure.ds_path = all_ds_paths[2]
    /\ all_ds_paths[1] \in DOMAIN repo_diff

\* C19: get_repo_diff without a working-copy diff returns, for each dataset
\* present in both snapshots, one feature delta for every key the filter
\* accepts whose value differs between base and target, with old the base
\* value and new the target value (old Absent for a feature only in target),
\* and no delta for a key whose value is the same in both.
C19_SnapshotFeatureDeltas ==
    (pc = "returned" /\ ~include_wc_diff) =>
        \A path \in DOMAIN base_rs.tree \cap DOMAIN target_rs.tree : \A k \in Keys :
            LET old_value == base_rs.tree[path].feature[k]
                new_value == target_rs.tree[path].feature[k]
                ds_filter == RepoKeyFilter_getitem(repo_key_filter, path)
                has_delta == path \in DOMAIN repo_diff
                                /\ HasEntry(repo_diff[path], "feature", k)
            IN  IF /\ Accepted(path)
                   /\ KeyMatches(ds_filter, "feature", k)
                   /\ old_value # new_value
                THEN has_delta /\ repo_diff[path].feature[k] = Delta(old_value, new_value)
                ELSE ~has_delta

\* C19's case: under the default filter, two datasets in both snapshots, one
\* with its first feature changed and one with its first feature only in
\* target, the second feature of each the same in both.
C19_Witness ==
    /\ pc = "returned"
    /\ ~include_wc_diff
    /\ repo_key_filter.match_all
    /\ DOMAIN base_rs.tree = RepoPaths
    /\ DOMAIN target_rs.tree = RepoPaths
    /\ DOMAIN repo_diff = RepoPaths
    /\ \E p \in RepoPaths : \E q \in RepoPaths \ {p} :
        /\ base_rs.tree[p].feature[1] # Absent
        /\ target_rs.tree[p].feature[1] # Absent
        /\ DOMAIN repo_diff[p].feature = {1}
        /\ base_rs.tree[q].feature[1] = Absent
        /\ repo_diff[q].feature[1].old = Absent
        /\ DOMAIN repo_diff[q].feature = {1}
    /\ \A p \in RepoPaths : base_rs.tree[p].feature[2] = target_rs.tree[p].feature[2]

\* C22: during get_repo_diff every path passed to get_dataset_diff is present
\* in at least one of the two snapshots, for every repo_key_filter, one that
\* names paths of neither snapshot included; the both-sides-absent case is not
\* reached, so get_repo_diff raises only on the failure of a collaborator.
C22_CalledPathsExist ==
    /\ \A i \in DOMAIN ds_calls :
        ds_calls[i].ds_path \in DOMAIN base_rs.tree \cup DOMAIN target_rs.tree
    /\ pc = "raised" => failure # None

\* C22's case: the filter names a path of neither snapshot and a path of one
\* of them, and get_repo_diff returned after its call for the latter.
C22_Witness ==
    /\ pc = "returned"
    /\ ~repo_key_filter.match_all
    /\ DOMAIN repo_key_filter.map \ (DOMAIN base_rs.tree \cup DOMAIN target_rs.tree) # {}
    /\ Len(ds_calls) = 1

\* The RepoDiff that the loop of get_repo_diff builds when it takes the paths
\* in the given order, before its prune.
RECURSIVE repo_diff_in_order(_)
repo_diff_in_order(order) ==
    IF order = <<>> THEN EmptyDiff
    ELSE LET before == repo_diff_in_order(SubSeq(order, 1, Len(order) - 1))
             path == order[Len(order)]
             result == get_dataset_diff(path, base_rs, target_rs, working_copy,
                                        include_wc_diff, workdir_diff_cache,
                                        RepoKeyFilter_getitem(repo_key_filter, path))
         IN  [p \in DOMAIN before \cup {path} |->
                 IF p = path THEN result.ds_diff ELSE before[p]]

\* The orders in which the paths of a list can be taken.
Orders(paths) ==
    {order \in [DOMAIN paths -> {paths[i] : i \in DOMAIN paths}] :
        \A i, j \in DOMAIN paths : i # j => order[i] # order[j]}

\* C23: get_repo_diff calls get_dataset_diff once for each enumerated path, in
\* ascending path order, and the RepoDiff it returns is the one that any other
\* order of the same paths gives.
C23_OncePerPathInOrder ==
    /\ \A i \in DOMAIN ds_calls :
        /\ i \in DOMAIN all_ds_paths
        /\ ds_calls[i].ds_path = all_ds_paths[i]
        /\ \A j \in DOMAIN ds_calls : i < j =>
            StrLess(ds_calls[i].ds_path, ds_calls[j].ds_path)
    /\ pc = "returned" =>
        /\ Len(ds_calls) = Len(all_ds_paths)
        /\ \A order \in Orders(all_ds_paths) :
            RepoDiff_prune(repo_diff_in_order(order), FALSE) = repo_diff

\* C23's case: two datasets, each with changes, and the RepoDiff returned
\* holds both.
C23_Witness ==
    /\ pc = "returned"
    /\ Len(ds_calls) = 2
    /\ Cardinality(Orders(all_ds_paths)) = 2
    /\ DOMAIN repo_diff = RepoPaths

----------------------------------------------------------------------------
(* Properties of the diffs returned by get_dataset_diff and get_repo_diff. *)

\* A DatasetDiff with no no-op delta: in every delta old and new differ, so
\* they are not both Absent and, when both present, not equal.
NoNoOpDelta(ds_diff) ==
    \A kind \in DOMAIN ds_diff : \A k \in DOMAIN ds_diff[kind] :
        /\ ~(ds_diff[kind][k].old = Absent /\ ds_diff[kind][k].new = Absent)
        /\ ds_diff[kind][k].old # ds_diff[kind][k].new

\* C25: no delta of a diff returned by get_dataset_diff or get_repo_diff is a
\* no-op, deltas made by concatenating the snapshot diff with the working-copy
\* diff included.
C25_NoNoOpDelta ==
    pc = "returned" =>
        /\ ds_result # None => NoNoOpDelta(ds_result.ds_diff)
        /\ \A path \in DOMAIN repo_diff : NoNoOpDelta(repo_diff[path])

\* C25's case: get_dataset_diff returned a delta concatenated from a change
\* between the snapshots and another in the working copy, while a key changed
\* and changed back has none.
C25_Witness ==
    /\ ReturnedWcDiffOfBoth
    /\ \E k \in Keys :
        /\ BaseDs.feature[k] # TargetDs.feature[k]
        /\ TargetDs.feature[k] # WcDs.feature[k]
        /\ HasEntry(ds_result.ds_diff, "feature", k)
        /\ ds_result.ds_diff.feature[k] = Delta(BaseDs.feature[k], WcDs.feature[k])
    /\ \E k \in Keys :
        /\ KeyMatches(DsFilter, "feature", k)
        /\ BaseDs.feature[k] # TargetDs.feature[k]
        /\ WcDs.feature[k] = BaseDs.feature[k]
        /\ ~HasEntry(ds_result.ds_diff, "feature", k)

\* The value of a feature in the base, and the value it ends with: the
\* working copy's when the working-copy diff is taken, else the target's.
BaseValue(k) == ItemValue(BaseDs, "feature", k)
FinalValue(k) ==
    IF include_wc_diff /\ TargetDs # None THEN WcDs.feature[k]
    ELSE ItemValue(TargetDs, "feature", k)

\* C26: the one ds_filter is applied to the snapshot-to-snapshot diff and to
\* the snapshot-to-working-copy diff: every feature key of the DatasetDiff
\* returned by get_dataset_diff is accepted by ds_filter, and every accepted
\* key whose base value differs from its final value is in it.
C26_SameFilterOnBothDiffs ==
    (pc = "returned" /\ ds_result # None) =>
        \A k \in Keys :
            HasEntry(ds_result.ds_diff, "feature", k)
                <=> (KeyMatches(DsFilter, "feature", k) /\ BaseValue(k) # FinalValue(k))

\* C26's case: both diffs are taken; a key outside the filter changes between
\* the snapshots and another in the working copy, and neither is in the diff
\* returned, which holds an accepted key.
C26_Witness ==
    /\ ReturnedConcatenation
    /\ BaseDs # None
    /\ ~DsFilter.match_all
    /\ \E k \in Keys : /\ ~KeyMatches(DsFilter, "feature", k)
                       /\ TargetDs.feature[k] # WcDs.feature[k]
                       /\ ~HasEntry(ds_result.ds_diff, "feature", k)
    /\ \E k \in Keys : /\ KeyMatches(DsFilter, "feature", k)
                       /\ HasEntry(ds_result.ds_diff, "feature", k)

----------------------------------------------------------------------------
(* The properties of get_pager_cmdline, under SpecHelp. *)

\* The first word of a string, as str.split() gives it: the first run of
\* characters that are not spaces; the empty string if there is none.
RECURSIVE WordAtStart(_)
WordAtStart(s) ==
    IF s = <<>> \/ Head(s) = Space THEN <<>>
    ELSE <<Head(s)>> \o WordAtStart(Tail(s))

RECURSIVE FirstWord(_)
FirstWord(s) ==
    IF s = <<>> THEN <<>>
    ELSE IF Head(s) = Space THEN FirstWord(Tail(s))
    ELSE WordAtStart(s)

\* Whether the first element of the command line returned is the first word
\* of the given string.
StartsWithFirstWordOf(s) ==
    /\ help.pc = "returned"
    /\ help.cmdline # <<>>
    /\ help.cmdline[1] = FirstWord(s)

\* A string get_pager_cmdline splits into plain words: one word at least, and
\* no quote.
PlainCommand(s) ==
    /\ FirstWord(s) # <<>>
    /\ \A i \in DOMAIN s : s[i] # Quote

\* C21 as stated: whenever PAGER is set in the environment, the first element
\* of the command line returned is the first word of PAGER; when no pager
\* variable is set, it is the first word of the renderer's default PAGER.
C21_PagerFromEnvironment ==
    (help # None /\ help.pc # "idle") =>
        /\ "PAGER" \in DOMAIN help.environ
            => StartsWithFirstWordOf(help.environ["PAGER"])
        /\ DOMAIN help.environ = {} => StartsWithFirstWordOf(help.PAGER)

\* C21 amended: MANPAGER comes before PAGER.  The pager is MANPAGER if it is
\* set, else PAGER if it is set, else the renderer's default PAGER; when the
\* pager is a command of plain words, the first element of the command line
\* returned is its first word; a pager of no word gives an empty command
\* line, and one with an unclosed quote a ValueError.
C21_ManpagerThenPager ==
    (help # None /\ help.pc # "idle") =>
        LET pager == IF "MANPAGER" \in DOMAIN help.environ
                     THEN help.environ["MANPAGER"]
                     ELSE IF "PAGER" \in DOMAIN help.environ
                     THEN help.environ["PAGER"]
                     ELSE help.PAGER
        IN  /\ PlainCommand(pager) => StartsWithFirstWordOf(pager)
            /\ (\A i \in DOMAIN pager : pager[i] = Space)
                => (help.pc = "returned" /\ help.cmdline = <<>>)
            /\ (Cardinality({i \in DOMAIN pager : pager[i] = Quote}) % 2 = 1)
                <=> (help.pc = "raised")

\* C21's case: PAGER and MANPAGER are both set, to commands of different
\* first words, and the command line starts with MANPAGER's.
C21_Witness ==
    /\ help # None
    /\ help.pc = "returned"
    /\ DOMAIN help.environ = {"MANPAGER", "PAGER"}
    /\ PlainCommand(help.environ["PAGER"])
    /\ PlainCommand(help.environ["MANPAGER"])
    /\ FirstWord(help.environ["PAGER"]) # FirstWord(help.environ["MANPAGER"])
    /\ help.cmdline[1] = FirstWord(help.environ["MANPAGER"])

----------------------------------------------------------------------------
(* The properties of fetch_promised_blobs_process, under SpecFetch. *)

\* Control has left the context manager.
LeftContext == fetch # None /\ fetch.pc = "left"

\* What C27 says of a context that control has left.
WaitedClosedAndReported ==
    /\ fetch.waited
    /\ fetch.body = "normal" => fetch.stdin_closed
    /\ (fetch.raised = "SubprocessError" /\ fetch.raised_exit_code = fetch.exit_code)
        <=> (fetch.exit_code # 0)

\* C27: on every exit of the context body, normal, by BrokenPipeError or by
\* any other exception, the git-fetch process is waited for before control
\* leaves the context manager; its stdin is closed when the body ends
\* normally; and SubprocessError carrying the process's exit code is raised
\* exactly when that exit code is not zero.
C27_WaitedOnEveryExit ==
    LeftContext => WaitedClosedAndReported

\* What holds of C27: when the body ends normally and p.stdin.close() does not
\* raise, or the body raises BrokenPipeError.
C27_HoldsUnlessUncaught ==
    (LeftContext /\ fetch.raised \in {"none", "SubprocessError"})
        => WaitedClosedAndReported

\* C27's failing exit: the body raised an exception other than
\* BrokenPipeError, and control left with the process not waited for.
C27_LeftUnwaitedOnException ==
    /\ LeftContext
    /\ fetch.body = "Exception"
    /\ ~fetch.waited
    /\ fetch.exit_code # 0
    /\ fetch.raised = "Exception"

\* C27's other failing exit: the body ended normally and p.stdin.close()
\* raised BrokenPipeError, which left the process not waited for.
C27_LeftUnwaitedOnClose ==
    /\ LeftContext
    /\ fetch.body = "normal"
    /\ fetch.raised = "BrokenPipeError"
    /\ ~fetch.waited

====
